---- MODULE Spec2Model ----
(***************************************************************************)
(* Number pipeline of src/main15.cpp: FileNumberReader, the filters,       *)
(* FilterFactory, the observers, NumberProcessor::run and main.            *)
(* A std::string is a sequence of one-character strings.                   *)
(***************************************************************************)
EXTENDS Integers, Sequences, FiniteSets, TLC

VARIABLES pc, argc, filter_name, file, registry, filter, call, observers,
          numbers, idx, obs, keeps, trace, out, status, reads,
          registry2, call2, calls, calls2

vars == <<pc, argc, filter_name, file, registry, filter, call, observers,
          numbers, idx, obs, keeps, trace, out, status, reads,
          registry2, call2, calls, calls2>>

----------------------------------------------------------------------------
(* Bounds of the model *)

MaxParamLen == 2
MaxFileLen == 3
MaxScanLen == 5
MaxObs == 2
MaxCalls == 2
MaxAbs == 40

(* The largest int (32 bits); the least one is -INT_MAX - 1 *)
INT_MAX == 2147483647
INT_MIN == -INT_MAX - 1

----------------------------------------------------------------------------
(* Characters and strings *)

DigitChars == {"0", "1", "2", "3", "4", "5", "6", "7", "8", "9"}

DigitVal(c) ==
    CASE c = "0" -> 0 [] c = "1" -> 1 [] c = "2" -> 2 [] c = "3" -> 3
      [] c = "4" -> 4 [] c = "5" -> 5 [] c = "6" -> 6 [] c = "7" -> 7
      [] c = "8" -> 8 [] c = "9" -> 9

(* The character's code, which orders std::string keys in the std::map *)
Code(c) ==
    CASE c = "\t" -> 9 [] c = "\n" -> 10 [] c = " " -> 32 [] c = "+" -> 43
      [] c = "-" -> 45 [] c \in DigitChars -> 48 + DigitVal(c)
      [] c = "D" -> 68 [] c = "E" -> 69 [] c = "G" -> 71 [] c = "N" -> 78
      [] c = "O" -> 79 [] c = "T" -> 84 [] c = "V" -> 86 [] c = "X" -> 88
      [] c = "x" -> 120

IsSpace(c) == c \in {" ", "\t", "\n"}
IsDigit(c) == c \in DigitChars

(* starts_with with its operands exchanged: prefix.starts_with(name) *)
starts_with_swapped(name, prefix) ==
    /\ Len(name) <= Len(prefix)
    /\ SubSeq(prefix, 1, Len(name)) = name

(* std::string::starts_with and std::string::substr(pos) *)
starts_with(name, prefix) ==
    /\ Len(prefix) <= Len(name)
    /\ SubSeq(name, 1, Len(prefix)) = prefix

substr(name, pos) == SubSeq(name, pos + 1, Len(name))

(* std::less<std::string>: lexicographic on the character codes *)
RECURSIVE StrLess(_, _)
StrLess(a, b) ==
    IF b = <<>> THEN FALSE
    ELSE IF a = <<>> THEN TRUE
    ELSE IF Code(Head(a)) # Code(Head(b)) THEN Code(Head(a)) < Code(Head(b))
    ELSE StrLess(Tail(a), Tail(b))

(* All strings over alphabet A of length at most n *)
RECURSIVE Strs(_, _)
Strs(A, n) ==
    IF n = 0 THEN {<<>>}
    ELSE LET S == Strs(A, n - 1)
         IN  S \cup {Append(s, c) : s \in {t \in S : Len(t) = n - 1}, c \in A}

----------------------------------------------------------------------------
(* Integer parsing: std::stoi (strtol, base 10) and operator>>(int&) *)

RECURSIVE SkipSpace(_, _)
SkipSpace(s, i) ==
    IF i <= Len(s) /\ IsSpace(s[i]) THEN SkipSpace(s, i + 1) ELSE i

RECURSIVE DigitsEnd(_, _)
DigitsEnd(s, i) ==
    IF i <= Len(s) /\ IsDigit(s[i]) THEN DigitsEnd(s, i + 1) ELSE i

(* The digits s[i..j-1] accumulated as a value <= 0 (so that INT_MIN fits);
   1 when the value leaves the int range *)
RECURSIVE Accum(_, _, _, _)
Accum(s, i, j, acc) ==
    IF i >= j THEN acc
    ELSE LET d == DigitVal(s[i])
         IN  IF \/ acc < -(INT_MAX \div 10)
                \/ (acc = -(INT_MAX \div 10) /\ d > (INT_MAX % 10) + 1)
             THEN 1
             ELSE Accum(s, i + 1, j, acc * 10 - d)

(* An optionally signed decimal integer starting at s[i], after whitespace.
   err: "none", "invalid" (no digits) or "range"; next: the index after it *)
ParseInt(s, i) ==
    LET b == SkipSpace(s, i)
        signed == b <= Len(s) /\ s[b] \in {"+", "-"}
        neg == b <= Len(s) /\ s[b] = "-"
        p == IF signed THEN b + 1 ELSE b
        e == DigitsEnd(s, p)
        m == Accum(s, p, e, 0)
    IN  IF e = p THEN [err |-> "invalid", value |-> 0, next |-> e]
        ELSE IF m = 1 \/ (~neg /\ m = INT_MIN)
        THEN [err |-> "range", value |-> 0, next |-> e]
        ELSE [err |-> "none", value |-> IF neg THEN m ELSE -m, next |-> e]

stoi(param) == ParseInt(param, 1)

----------------------------------------------------------------------------
(* FileNumberReader *)

NoFile == [exists |-> FALSE, text |-> <<>>]
FileOf(text) == [exists |-> TRUE, text |-> text]

(* A loop that clears the stream's error, drops a character and goes on *)
RECURSIVE ReadLoopSkipping(_, _, _)
ReadLoopSkipping(s, i, acc) ==
    LET r == ParseInt(s, i)
    IN  IF r.err = "none" THEN ReadLoopSkipping(s, r.next, Append(acc, r.value))
        ELSE IF r.next > Len(s) THEN acc
        ELSE ReadLoopSkipping(s, r.next + 1, acc)

(* while (in >> n) numbers.push_back(n); *)
RECURSIVE ReadLoop(_, _, _)
ReadLoop(s, i, acc) ==
    LET r == ParseInt(s, i)
    IN  IF r.err # "none" THEN acc
        ELSE ReadLoop(s, r.next, Append(acc, r.value))

read_numbers(f) == IF ~f.exists THEN <<>> ELSE ReadLoop(f.text, 1, <<>>)

Line(text, n) == [text |-> text, n |-> n]

read_output(f) ==
    IF ~f.exists THEN <<Line("Error: File not found: ", 0)>> ELSE <<>>

----------------------------------------------------------------------------
(* Filters *)

(* The remainder of C++: the quotient truncates toward zero *)
CRem(a, b) ==
    IF a >= 0 THEN a % b
    ELSE LET m == a % b IN IF m = 0 THEN 0 ELSE m - b

Null == [kind |-> "nullptr"]
EvenFilter == [kind |-> "EvenFilter"]
OddFilter == [kind |-> "OddFilter"]
GTFilter(n) == [kind |-> "GTFilter", threshold |-> n]

EvenKeep(number) == CRem(number, 2) = 0

(* number % 2 == 1 *)
OddKeepIsOne(number) == CRem(number, 2) = 1

OddKeep(number) == CRem(number, 2) # 0

(* number >= threshold *)
GTKeepOrEqual(threshold, number) == number >= threshold

GTKeep(threshold, number) == number > threshold

keep(f, number) ==
    CASE f.kind = "EvenFilter" -> EvenKeep(number)
      [] f.kind = "OddFilter" -> OddKeep(number)
      [] f.kind = "GTFilter" -> GTKeep(f.threshold, number)

----------------------------------------------------------------------------
(* FilterFactory: the registry is a std::map, modelled as the sequence of its
   entries in iteration order (ascending keys) *)

Entry(prefix, creator) == [prefix |-> prefix, creator |-> creator]

(* registry[prefix] = creator, on a map held in insertion order: a vector of
   pairs would behave so *)
register_filter_unordered(reg, prefix, creator) ==
    IF \E i \in 1..Len(reg) : reg[i].prefix = prefix
    THEN [i \in 1..Len(reg) |->
            IF reg[i].prefix = prefix THEN Entry(prefix, creator) ELSE reg[i]]
    ELSE Append(reg, Entry(prefix, creator))

(* registry[prefix] = creator *)
register_filter(reg, prefix, creator) ==
    IF \E i \in 1..Len(reg) : reg[i].prefix = prefix
    THEN [i \in 1..Len(reg) |->
            IF reg[i].prefix = prefix THEN Entry(prefix, creator) ELSE reg[i]]
    ELSE LET k == Cardinality({i \in 1..Len(reg) : StrLess(reg[i].prefix, prefix)})
         IN  SubSeq(reg, 1, k) \o <<Entry(prefix, creator)>>
               \o SubSeq(reg, k + 1, Len(reg))

(* The creators main registers, named by the prefix main gives them *)
Creators == {"EVEN", "ODD", "GT"}

GTError == Line("Error: GT filter requires a numeric value, e.g., GT5", 0)

GTCreator(param) ==
    IF param = <<>> THEN [filter |-> Null, out |-> <<GTError>>]
    ELSE LET r == stoi(param)
         IN  IF r.err = "none"
             THEN [filter |-> GTFilter(r.value), out |-> <<>>]
             ELSE [filter |-> Null, out |-> <<GTError>>]

Invoke(creator, param) ==
    CASE creator = "EVEN" -> [filter |-> EvenFilter, out |-> <<>>]
      [] creator = "ODD" -> [filter |-> OddFilter, out |-> <<>>]
      [] creator = "GT" -> GTCreator(param)

(* The entry a loop over the map from its last entry down to its first
   stops at *)
RECURSIVE LastMatch(_, _, _)
LastMatch(reg, name, i) ==
    IF i < 1 \/ i > Len(reg) THEN 0
    ELSE IF starts_with(name, reg[Len(reg) + 1 - i].prefix) THEN Len(reg) + 1 - i
    ELSE LastMatch(reg, name, i + 1)

(* The entry the loop of create stops at, 0 when it runs to the end *)
RECURSIVE FirstMatch(_, _, _)
FirstMatch(reg, name, i) ==
    IF i > Len(reg) THEN 0
    ELSE IF starts_with(name, reg[i].prefix) THEN i
    ELSE FirstMatch(reg, name, i + 1)

NoCall == [matched |-> FALSE, prefix |-> <<>>, param |-> <<>>, creator |-> "none"]

UnknownError == Line("Error: Unknown filter: ", 0)

(* filter: the pointer returned; call: the creator invoked and its argument;
   out: what is printed *)
create(reg, name) ==
    LET i == FirstMatch(reg, name, 1)
    IN  IF i = 0
        THEN [filter |-> Null, out |-> <<UnknownError>>, call |-> NoCall]
        ELSE LET param == substr(name, Len(reg[i].prefix))
                 r == Invoke(reg[i].creator, param)
             IN  [filter |-> r.filter, out |-> r.out,
                  call |-> [matched |-> TRUE, prefix |-> reg[i].prefix,
                            param |-> param, creator |-> reg[i].creator]]

----------------------------------------------------------------------------
(* Observers *)

PrintObserver == [kind |-> "PrintObserver"]
CountObserver(count) == [kind |-> "CountObserver", count |-> count]

(* on_number of a CountObserver that adds the number instead of one *)
on_number_adding(o, number) ==
    IF o.kind = "CountObserver" THEN CountObserver(o.count + number) ELSE o

(* The observer after on_number(number), and what the call prints *)
on_number(o, number) ==
    IF o.kind = "CountObserver" THEN CountObserver(o.count + 1) ELSE o

on_number_output(o, number) ==
    IF o.kind = "PrintObserver" THEN <<Line("Number passed: ", number)>> ELSE <<>>

on_finished_output(o) ==
    IF o.kind = "PrintObserver" THEN <<Line("Processing finished.", 0)>>
    ELSE <<Line("Total passed numbers: ", o.count)>>

Event(i, kind, n) == [obs |-> i, kind |-> kind, n |-> n]

----------------------------------------------------------------------------
(* Inputs *)

EVEN == <<"E", "V", "E", "N">>
ODD == <<"O", "D", "D">>
GT == <<"G", "T">>

NameChars == {"3", "x", "-"}
FileChars == {"3", "6", " "}
ScanChars == {"3", " ", "-", "+", "x"}

Params == Strs(NameChars, MaxParamLen)

(* Names main is called with: a head and a parameter, and some more *)
ExtraNames ==
    { GT \o <<"4">>, GT \o <<"5">>, GT \o <<" ", "3">>, GT \o <<"+", "3">>,
      GT \o <<"9", "9", "9", "9", "9", "9", "9", "9", "9", "9", "9">>,
      <<"X">>, <<"G">> }

FilterNames == {h \o p : h \in {<<>>, EVEN, ODD, GT}, p \in Params} \cup ExtraNames

OneToSix == <<"1", " ", "2", " ", "3", " ", "4", " ", "5", " ", "6">>
Negatives == <<"-", "4", " ", "-", "3", " ", "3">>

Files ==
    {FileOf(t) : t \in Strs(FileChars, MaxFileLen) \cup {OneToSix, Negatives}}
      \cup {NoFile}

ObserverKinds == {PrintObserver, CountObserver(0)}

RECURSIVE ObserverLists(_)
ObserverLists(n) ==
    IF n = 0 THEN {<<>>}
    ELSE LET S == ObserverLists(n - 1)
         IN  S \cup {Append(s, o) : s \in {t \in S : Len(t) = n - 1},
                                    o \in ObserverKinds}

----------------------------------------------------------------------------
(* State before anything has run. status is -1 until the process exits. *)

Idle ==
    /\ registry = <<>> /\ registry2 = <<>>
    /\ call = NoCall /\ call2 = NoCall
    /\ calls = <<>> /\ calls2 = <<>>
    /\ idx = 0 /\ obs = 0
    /\ keeps = <<>> /\ trace = <<>> /\ out = <<>>
    /\ status = -1 /\ reads = 0

----------------------------------------------------------------------------
(* main *)

Init ==
    /\ Idle
    /\ numbers = <<>>
    /\ pc = "main"
    /\ filter = Null
    /\ observers = <<>>
    /\ argc \in {2, 3, 4}
    /\ filter_name \in IF argc = 3 THEN FilterNames ELSE {<<>>}
    /\ file \in IF argc = 3 THEN Files ELSE {NoFile}

Usage ==
    /\ pc = "main"
    /\ argc # 3
    /\ out' = out \o <<Line("Usage: ./number_pipeline <FILTER> <FILE>", 0),
                       Line("Example filters: EVEN, ODD, GT5", 0)>>
    /\ status' = 1
    /\ pc' = "exit"
    /\ UNCHANGED <<argc, filter_name, file, registry, filter, call, observers,
                   numbers, idx, obs, keeps, trace, reads,
                   registry2, call2, calls, calls2>>

RegisterEven ==
    /\ pc = "main"
    /\ argc = 3
    /\ registry' = register_filter(registry, EVEN, "EVEN")
    /\ pc' = "register_odd"
    /\ UNCHANGED <<argc, filter_name, file, filter, call, observers,
                   numbers, idx, obs, keeps, trace, out, status, reads,
                   registry2, call2, calls, calls2>>

RegisterOdd ==
    /\ pc = "register_odd"
    /\ registry' = register_filter(registry, ODD, "ODD")
    /\ pc' = "register_gt"
    /\ UNCHANGED <<argc, filter_name, file, filter, call, observers,
                   numbers, idx, obs, keeps, trace, out, status, reads,
                   registry2, call2, calls, calls2>>

RegisterGT ==
    /\ pc = "register_gt"
    /\ registry' = register_filter(registry, GT, "GT")
    /\ pc' = "create"
    /\ UNCHANGED <<argc, filter_name, file, filter, call, observers,
                   numbers, idx, obs, keeps, trace, out, status, reads,
                   registry2, call2, calls, calls2>>

(* auto filter = create(filter_name); if (!filter) return 1; and the
   construction of the reader and the observers. In the factory's own
   specification it follows any registrations. *)
CreateFilter ==
    /\ pc \in {"create", "register"}
    /\ LET r == create(registry, filter_name)
       IN  /\ filter' = r.filter
           /\ call' = r.call
           /\ out' = out \o r.out
           /\ status' = IF r.filter = Null THEN 1 ELSE status
           /\ pc' = IF r.filter = Null THEN "exit" ELSE "run"
           /\ observers' = IF r.filter = Null THEN observers
                           ELSE <<PrintObserver, CountObserver(0)>>
    /\ UNCHANGED <<argc, filter_name, file, registry,
                   numbers, idx, obs, keeps, trace, reads,
                   registry2, call2, calls, calls2>>

----------------------------------------------------------------------------
(* NumberProcessor::run *)

(* Whether the observers are told of n: the if of the loop *)
Passes(f, n) == keep(f, n)

(* The position in the list of the observer the j-th iteration of
   for (auto* obs : observers) visits, a loop from the back *)
NthObserverReversed(count, j) == count + 1 - j

(* The position in the list of the observer the j-th iteration of
   for (auto* obs : observers) visits *)
NthObserver(count, j) == j

(* Where run goes after the number at index i *)
AfterNumber(i) == IF i + 1 > Len(numbers) THEN "finish" ELSE "keep"

ReadNumbers ==
    /\ pc = "run"
    /\ numbers' = read_numbers(file)
    /\ out' = out \o read_output(file)
    /\ reads' = reads + 1
    /\ idx' = 1
    /\ obs' = 1
    /\ pc' = IF numbers' = <<>> THEN "finish" ELSE "keep"
    /\ UNCHANGED <<argc, filter_name, file, registry, filter, call, observers,
                   keeps, trace, status, registry2, call2, calls, calls2>>

Keep ==
    /\ pc = "keep"
    /\ LET n == numbers[idx]
           k == Passes(filter, n)
       IN  /\ keeps' = Append(keeps, [filter |-> filter, n |-> n, result |-> k])
           /\ pc' = IF k /\ observers # <<>> THEN "notify" ELSE AfterNumber(idx)
           /\ idx' = IF k /\ observers # <<>> THEN idx ELSE idx + 1
    /\ obs' = 1
    /\ UNCHANGED <<argc, filter_name, file, registry, filter, call, observers,
                   numbers, trace, out, status, reads,
                   registry2, call2, calls, calls2>>

OnNumber ==
    /\ pc = "notify"
    /\ LET n == numbers[idx]
           i == NthObserver(Len(observers), obs)
       IN  /\ observers' = [observers EXCEPT ![i] = on_number(@, n)]
           /\ out' = out \o on_number_output(observers[i], n)
           /\ trace' = Append(trace, Event(i, "on_number", n))
    /\ obs' = IF obs < Len(observers) THEN obs + 1 ELSE 1
    /\ idx' = IF obs < Len(observers) THEN idx ELSE idx + 1
    /\ pc' = IF obs < Len(observers) THEN pc ELSE AfterNumber(idx)
    /\ UNCHANGED <<argc, filter_name, file, registry, filter, call,
                   numbers, keeps, status, reads,
                   registry2, call2, calls, calls2>>

OnFinished ==
    /\ pc = "finish"
    /\ obs <= Len(observers)
    /\ LET i == NthObserver(Len(observers), obs)
       IN  /\ out' = out \o on_finished_output(observers[i])
           /\ trace' = Append(trace, Event(i, "on_finished", 0))
    /\ obs' = obs + 1
    /\ UNCHANGED <<pc, argc, filter_name, file, registry, filter, call,
                   observers, numbers, idx, keeps, status, reads,
                   registry2, call2, calls, calls2>>

(* run returns, and main returns 0 *)
Return ==
    /\ pc = "finish"
    /\ obs > Len(observers)
    /\ status' = 0
    /\ pc' = "exit"
    /\ UNCHANGED <<argc, filter_name, file, registry, filter, call, observers,
                   numbers, idx, obs, keeps, trace, out, reads,
                   registry2, call2, calls, calls2>>

Next ==
    \/ Usage
    \/ RegisterEven
    \/ RegisterOdd
    \/ RegisterGT
    \/ CreateFilter
    \/ ReadNumbers
    \/ Keep
    \/ OnNumber
    \/ OnFinished
    \/ Return

Spec == Init /\ [][Next]_vars

----------------------------------------------------------------------------
(* NumberProcessor on any filter, observer list and file *)

RunFilters == {EvenFilter, OddFilter, GTFilter(3), GTFilter(-4)}

InitRun ==
    /\ Idle
    /\ numbers = <<>>
    /\ pc = "run"
    /\ argc = 3
    /\ filter_name = <<>>
    /\ filter \in RunFilters
    /\ observers \in ObserverLists(MaxObs)
    /\ file \in Files

NextRun ==
    \/ ReadNumbers
    \/ Keep
    \/ OnNumber
    \/ OnFinished
    \/ Return

SpecRun == InitRun /\ [][NextRun]_vars

----------------------------------------------------------------------------
(* FilterFactory under any registrations, followed by main from create on *)

Prefixes == {<<"G">>, GT, ODD, EVEN}

FactoryFiles == {FileOf(<<"3", " ", "6">>)}

InitFactory ==
    /\ Idle
    /\ numbers = <<>>
    /\ pc = "register"
    /\ argc = 3
    /\ filter = Null
    /\ observers = <<>>
    /\ filter_name \in FilterNames
    /\ file \in FactoryFiles

Register ==
    /\ pc = "register"
    /\ \E prefix \in Prefixes, creator \in Creators :
          registry' = register_filter(registry, prefix, creator)
    /\ UNCHANGED <<pc, argc, filter_name, file, filter, call, observers,
                   numbers, idx, obs, keeps, trace, out, status, reads,
                   registry2, call2, calls, calls2>>

NextFactory ==
    \/ Register
    \/ CreateFilter
    \/ ReadNumbers
    \/ Keep
    \/ OnNumber
    \/ OnFinished
    \/ Return

SpecFactory == InitFactory /\ [][NextFactory]_vars

----------------------------------------------------------------------------
(* Two factories, each with the log of its register_filter calls, asked for
   the same name *)

DetPrefixes == {<<"G">>, GT, ODD}
DetCreators == {"GT", "ODD"}
DetNames == {GT \o <<"3">>, <<"G">>, ODD, ODD \o <<"x">>, <<"X">>}

InitDet ==
    /\ Idle
    /\ numbers = <<>>
    /\ pc = "register"
    /\ argc = 3
    /\ filter = Null
    /\ observers = <<>>
    /\ filter_name = <<>>
    /\ file = NoFile

RegisterFirst ==
    /\ pc = "register"
    /\ Len(calls) < MaxCalls
    /\ \E prefix \in DetPrefixes, creator \in DetCreators :
          /\ registry' = register_filter(registry, prefix, creator)
          /\ calls' = Append(calls, Entry(prefix, creator))
    /\ UNCHANGED <<pc, argc, filter_name, file, filter, call, observers,
                   numbers, idx, obs, keeps, trace, out, status, reads,
                   registry2, call2, calls2>>

RegisterSecond ==
    /\ pc = "register"
    /\ Len(calls2) < MaxCalls
    /\ \E prefix \in DetPrefixes, creator \in DetCreators :
          /\ registry2' = register_filter(registry2, prefix, creator)
          /\ calls2' = Append(calls2, Entry(prefix, creator))
    /\ UNCHANGED <<pc, argc, filter_name, file, filter, call, observers,
                   numbers, idx, obs, keeps, trace, out, status, reads,
                   registry, call2, calls>>

CreateBoth ==
    /\ pc = "register"
    /\ \E name \in DetNames :
          /\ filter_name' = name
          /\ filter' = create(registry, name).filter
          /\ call' = create(registry, name).call
          /\ call2' = create(registry2, name).call
    /\ pc' = "created"
    /\ UNCHANGED <<argc, file, observers, numbers, idx, obs, keeps, trace, out,
                   status, reads, registry, registry2, calls, calls2>>

NextDet ==
    \/ RegisterFirst
    \/ RegisterSecond
    \/ CreateBoth

SpecDet == InitDet /\ [][NextDet]_vars

----------------------------------------------------------------------------
(* The filters applied to one number *)

FilterInputs ==
    (-MaxAbs..MaxAbs) \cup {INT_MIN, INT_MIN + 1, INT_MAX - 1, INT_MAX}

InitFilter ==
    /\ Idle
    /\ pc = "filter"
    /\ argc = 3
    /\ filter = Null
    /\ observers = <<>>
    /\ filter_name = <<>>
    /\ file = NoFile
    /\ \E n \in FilterInputs : numbers = <<n>>

Evaluated(f) == \E j \in 1..Len(keeps) : keeps[j].filter = f

KeepEven ==
    /\ pc = "filter"
    /\ ~Evaluated(EvenFilter)
    /\ filter' = EvenFilter
    /\ keeps' = Append(keeps, [filter |-> EvenFilter, n |-> numbers[1],
                               result |-> keep(EvenFilter, numbers[1])])
    /\ UNCHANGED <<pc, argc, filter_name, file, registry, call, observers,
                   numbers, idx, obs, trace, out, status, reads,
                   registry2, call2, calls, calls2>>

KeepOdd ==
    /\ pc = "filter"
    /\ ~Evaluated(OddFilter)
    /\ filter' = OddFilter
    /\ keeps' = Append(keeps, [filter |-> OddFilter, n |-> numbers[1],
                               result |-> keep(OddFilter, numbers[1])])
    /\ UNCHANGED <<pc, argc, filter_name, file, registry, call, observers,
                   numbers, idx, obs, trace, out, status, reads,
                   registry2, call2, calls, calls2>>

NextFilter ==
    \/ KeepEven
    \/ KeepOdd

SpecFilter == InitFilter /\ [][NextFilter]_vars

----------------------------------------------------------------------------
(* FileNumberReader::read_numbers on its own *)

OutOfRange == <<"3", " ", "9", "9", "9", "9", "9", "9", "9", "9", "9", "9", "9",
                " ", "3">>
MaxInt == <<"2", "1", "4", "7", "4", "8", "3", "6", "4", "7", " ", "3">>
PastMaxInt == <<"2", "1", "4", "7", "4", "8", "3", "6", "4", "8", " ", "3">>
MinInt == <<"-", "2", "1", "4", "7", "4", "8", "3", "6", "4", "8", "\n", "3">>
PastMinInt == <<"-", "2", "1", "4", "7", "4", "8", "3", "6", "4", "9", "\t", "3">>

ScanFiles ==
    {FileOf(t) : t \in Strs(ScanChars, MaxScanLen)
                       \cup {OneToSix, Negatives, OutOfRange, MaxInt,
                             PastMaxInt, MinInt, PastMinInt}}
      \cup {NoFile}

InitReader ==
    /\ Idle
    /\ numbers = <<>>
    /\ pc = "read"
    /\ argc = 3
    /\ filter = Null
    /\ observers = <<>>
    /\ filter_name = <<>>
    /\ file \in ScanFiles

ReadFile ==
    /\ pc = "read"
    /\ numbers' = read_numbers(file)
    /\ out' = out \o read_output(file)
    /\ reads' = reads + 1
    /\ pc' = "read_done"
    /\ UNCHANGED <<argc, filter_name, file, registry, filter, call, observers,
                   idx, obs, keeps, trace, status, registry2, call2, calls, calls2>>

NextReader == ReadFile

SpecReader == InitReader /\ [][NextReader]_vars

----------------------------------------------------------------------------
(* Properties of NumberProcessor::run (SpecRun) *)

IsPrefix(a, b) == Len(a) <= Len(b) /\ a = SubSeq(b, 1, Len(a))

(* k: how many numbers of ns the filter keeps *)
PassCount(f, ns) == Cardinality({i \in 1..Len(ns) : keep(f, ns[i])})

(* How many times observer i got the call *)
CallCount(i, kind) ==
    Cardinality({j \in 1..Len(trace) : trace[j].obs = i /\ trace[j].kind = kind})

TotalLines == {j \in 1..Len(out) : out[j].text = "Total passed numbers: "}

CountObservers == {i \in 1..Len(observers) : observers[i].kind = "CountObserver"}

(* C1: one run calls on_number on each observer exactly k times, k the count
   of numbers the filter keeps, and on_finished exactly once; a CountObserver
   fresh at the start holds and reports k. During the run no observer has got
   more than that. *)
C1_NotificationCounts ==
    LET k == PassCount(filter, numbers)
    IN  /\ \A i \in 1..Len(observers) :
              /\ CallCount(i, "on_number") <= k
              /\ CallCount(i, "on_finished") <= 1
        /\ pc = "exit" =>
              /\ \A i \in 1..Len(observers) :
                    /\ CallCount(i, "on_number") = k
                    /\ CallCount(i, "on_finished") = 1
              /\ \A i \in CountObservers : observers[i].count = k
              /\ \A j \in TotalLines : out[j].n = k
              /\ Cardinality(TotalLines) = Cardinality(CountObservers)

C1_Witness ==
    /\ pc = "exit"
    /\ Len(observers) = 2
    /\ CountObservers # {}
    /\ PassCount(filter, numbers) = 2
    /\ Len(numbers) = 3
    /\ TotalLines # {}

(* The calls of one number on count observers, then the whole trace of a run *)
NumberEvents(n, count) == [i \in 1..count |-> Event(i, "on_number", n)]
FinishEvents(count) == [i \in 1..count |-> Event(i, "on_finished", 0)]

RECURSIVE PassEvents(_, _, _)
PassEvents(f, ns, count) ==
    IF ns = <<>> THEN <<>>
    ELSE (IF keep(f, Head(ns)) THEN NumberEvents(Head(ns), count) ELSE <<>>)
           \o PassEvents(f, Tail(ns), count)

ExpectedTrace(f, ns, count) == PassEvents(f, ns, count) \o FinishEvents(count)

EvaluatedNumbers == [j \in 1..Len(keeps) |-> keeps[j].n]

(* C2: the calls of a run are, for each number in order that the filter keeps,
   on_number on the observers in list order, then on_finished on each in that
   order: the trace is always a prefix of that and is all of it at the end;
   keep is evaluated once per number, in order, and on all of them. *)
C2_EventTrace ==
    /\ IsPrefix(trace, ExpectedTrace(filter, numbers, Len(observers)))
    /\ IsPrefix(EvaluatedNumbers, numbers)
    /\ \A j \in 1..Len(keeps) : keeps[j].result = keep(filter, keeps[j].n)
    /\ \A i, j \in 1..Len(trace) :
          (i < j /\ trace[i].kind = "on_finished") => trace[j].kind = "on_finished"
    /\ pc = "exit" =>
          /\ trace = ExpectedTrace(filter, numbers, Len(observers))
          /\ EvaluatedNumbers = numbers
          /\ numbers = read_numbers(file)

C2_Witness ==
    /\ pc = "exit"
    /\ Len(observers) = 2
    /\ Len(numbers) = 3
    /\ PassCount(filter, numbers) = 2
    /\ ~keep(filter, numbers[1])
    /\ Len(trace) = 6

----------------------------------------------------------------------------
(* Properties of main (Spec) *)

ObserverLines ==
    {j \in 1..Len(out) :
        out[j].text \in {"Number passed: ", "Processing finished.",
                         "Total passed numbers: "}}

(* C3: when the file cannot be opened the process exits with a non-zero
   status, no number is processed and no observer output is produced. *)
C3_MissingFileFails ==
    (argc = 3 /\ ~file.exists /\ reads > 0) =>
        /\ pc = "exit" => status # 0
        /\ keeps = <<>>
        /\ trace = <<>>
        /\ ObserverLines = {}

(* A base-10 integer: an optional sign and then digits only, at least one *)
IsDecimalInteger(p) ==
    LET body == IF p # <<>> /\ Head(p) \in {"+", "-"} THEN Tail(p) ELSE p
    IN  /\ body # <<>>
        /\ \A i \in 1..Len(body) : body[i] \in DigitChars

Created == pc \in {"run", "keep", "notify", "finish", "exit"}

(* C4: for a name "GT" + p with p empty or not a base-10 integer, no filter
   is constructed, the process exits with a non-zero status, the file is never
   read and no observer is notified. *)
C4_InvalidGTArgument ==
    (/\ argc = 3
     /\ Created
     /\ IsPrefix(GT, filter_name)
     /\ ~IsDecimalInteger(SubSeq(filter_name, 3, Len(filter_name)))) =>
        /\ filter = Null
        /\ pc = "exit" /\ status = 1
        /\ reads = 0
        /\ trace = <<>>

(* The decimal text of an integer *)
DigitChar(d) == CHOOSE c \in DigitChars : DigitVal(c) = d

RECURSIVE DecNat(_)
DecNat(k) ==
    IF k < 10 THEN <<DigitChar(k)>>
    ELSE Append(DecNat(k \div 10), DigitChar(k % 10))

Dec(t) == IF t < 0 THEN <<"-">> \o DecNat(-t) ELSE DecNat(t)

Thresholds == -MaxAbs..MaxAbs

(* C9: the filter main creates from "GT" and the decimal text of t is
   GTFilter with threshold t, it is the filter of every evaluation, and each
   evaluation keeps n exactly when n > t; of 1..6, GT4 passes 5 and 6. *)
C9_GreaterThan ==
    /\ \A t \in Thresholds :
          (argc = 3 /\ Created /\ filter_name = GT \o Dec(t)) =>
              /\ filter = GTFilter(t)
              /\ call.param = Dec(t)
              /\ \A j \in 1..Len(keeps) :
                    /\ keeps[j].filter = GTFilter(t)
                    /\ keeps[j].result = (keeps[j].n > t)
    /\ (/\ argc = 3 /\ pc = "exit" /\ filter_name = GT \o <<"4">>
        /\ file = FileOf(OneToSix)) =>
          /\ [j \in 1..Len(trace) |-> trace[j].n] = <<5, 5, 6, 6, 0, 0>>
          /\ out[Len(out)] = Line("Total passed numbers: ", 2)

C9_Witness ==
    /\ pc = "exit"
    /\ filter_name = GT \o <<"3">>
    /\ filter = GTFilter(3)
    /\ \E j \in 1..Len(keeps) : keeps[j].n = 3 /\ ~keeps[j].result
    /\ \E j \in 1..Len(keeps) : keeps[j].n = 6 /\ keeps[j].result

----------------------------------------------------------------------------
(* Properties of FilterFactory (SpecFactory) *)

(* The registered prefixes that the name begins with *)
MatchingPrefixes(reg, name) ==
    {reg[i].prefix : i \in {j \in 1..Len(reg) : IsPrefix(reg[j].prefix, name)}}

CreatorOf(reg, prefix) ==
    LET i == CHOOSE j \in 1..Len(reg) : reg[j].prefix = prefix IN reg[i].creator

(* C5: with a non-empty registry and a name no registered prefix is a prefix
   of, create prints the unknown-filter error and returns no filter, no
   creator is invoked, and the program exits with status 1 without reading
   the file or notifying an observer. *)
C5_UnknownFilter ==
    (/\ pc # "register"
     /\ registry # <<>>
     /\ MatchingPrefixes(registry, filter_name) = {}) =>
        /\ filter = Null
        /\ call = NoCall
        /\ out = <<UnknownError>>
        /\ pc = "exit" /\ status = 1
        /\ reads = 0 /\ numbers = <<>> /\ keeps = <<>> /\ trace = <<>>

C5_Witness ==
    /\ pc = "exit"
    /\ Len(registry) = 3
    /\ filter_name = <<"G">>
    /\ MatchingPrefixes(registry, filter_name) = {}
    /\ status = 1

(* C6 as claimed: when two or more registered prefixes are prefixes of the
   name, create invokes the creator of the longest one, with the rest of the
   name after it. *)
C6_LongestPrefix ==
    (/\ pc # "register"
     /\ Cardinality(MatchingPrefixes(registry, filter_name)) >= 2) =>
        /\ call.matched
        /\ call.prefix \in MatchingPrefixes(registry, filter_name)
        /\ \A q \in MatchingPrefixes(registry, filter_name) :
              Len(q) <= Len(call.prefix)

(* C6 amended: when two or more registered prefixes are prefixes of the name,
   create invokes the creator of the shortest one (the first in the map's key
   order), with the rest of the name after it. *)
C6_ShortestPrefix ==
    (/\ pc # "register"
     /\ Cardinality(MatchingPrefixes(registry, filter_name)) >= 2) =>
        /\ call.matched
        /\ call.prefix \in MatchingPrefixes(registry, filter_name)
        /\ \A q \in MatchingPrefixes(registry, filter_name) :
              Len(call.prefix) <= Len(q)
        /\ call.creator = CreatorOf(registry, call.prefix)
        /\ call.prefix \o call.param = filter_name
        /\ filter = Invoke(call.creator, call.param).filter

C6_Witness ==
    /\ pc = "exit"
    /\ filter_name = GT \o <<"3">>
    /\ MatchingPrefixes(registry, filter_name) = {<<"G">>, GT}
    /\ CreatorOf(registry, <<"G">>) = "ODD"
    /\ CreatorOf(registry, GT) = "GT"
    /\ call.prefix = <<"G">>
    /\ call.param = <<"T", "3">>
    /\ filter = OddFilter

----------------------------------------------------------------------------
(* Determinism of the factory (SpecDet) *)

(* The prefix-to-creator mapping a sequence of register_filter calls ends
   with: for each prefix, the creator of its last call *)
LastWins(log) ==
    {log[i] : i \in {j \in 1..Len(log) :
                        \A k \in (j + 1)..Len(log) : log[k].prefix # log[j].prefix}}

(* C7: two sequences of register_filter calls that end with the same mapping
   make create select the same prefix and pass the same parameter, for every
   name. *)
C7_Deterministic ==
    LastWins(calls) = LastWins(calls2) =>
        /\ \A name \in FilterNames \cup DetNames :
              create(registry, name).call = create(registry2, name).call
        /\ pc = "created" => call = call2

C7_Witness ==
    /\ pc = "created"
    /\ calls = <<Entry(<<"G">>, "ODD"), Entry(GT, "GT")>>
    /\ calls2 = <<Entry(GT, "GT"), Entry(<<"G">>, "ODD")>>
    /\ filter_name = GT \o <<"3">>
    /\ call.matched
    /\ call = call2

----------------------------------------------------------------------------
(* Even and Odd (SpecFilter) *)

(* C8: on every int, negative ones included, EvenFilter keeps n exactly when
   two divides n, and OddFilter keeps n exactly when EvenFilter does not. *)
C8_EvenOdd ==
    /\ \A j \in 1..Len(keeps) :
          /\ keeps[j].filter = EvenFilter => keeps[j].result = (keeps[j].n % 2 = 0)
          /\ keeps[j].filter = OddFilter => keeps[j].result = (keeps[j].n % 2 = 1)
    /\ \A i, j \in 1..Len(keeps) :
          (keeps[i].filter = EvenFilter /\ keeps[j].filter = OddFilter
             /\ keeps[i].n = keeps[j].n) =>
              keeps[i].result = ~keeps[j].result

C8_Witness ==
    /\ numbers = <<-4>>
    /\ Len(keeps) = 2
    /\ \E j \in 1..2 : keeps[j].filter = EvenFilter /\ keeps[j].result
    /\ \E j \in 1..2 : keeps[j].filter = OddFilter /\ ~keeps[j].result

----------------------------------------------------------------------------
(* read_numbers (SpecReader) *)

(* The whitespace-separated tokens of a text *)
RECURSIVE Split(_, _, _)
Split(s, cur, acc) ==
    IF s = <<>> THEN (IF cur = <<>> THEN acc ELSE Append(acc, cur))
    ELSE IF IsSpace(Head(s))
         THEN Split(Tail(s), <<>>, IF cur = <<>> THEN acc ELSE Append(acc, cur))
         ELSE Split(Tail(s), Append(cur, Head(s)), acc)

Tokens(s) == Split(s, <<>>, <<>>)

IsNegative(tok) == tok # <<>> /\ Head(tok) = "-"
Unsigned(tok) == IF tok # <<>> /\ Head(tok) \in {"+", "-"} THEN Tail(tok) ELSE tok

RECURSIVE StripZeros(_)
StripZeros(ds) == IF ds # <<>> /\ Head(ds) = "0" THEN StripZeros(Tail(ds)) ELSE ds

(* Whether the digits, with the sign, name a value of int *)
FitsInt(ds, negative) ==
    LET d == StripZeros(ds)
        limit == IF negative THEN <<"2", "1", "4", "7", "4", "8", "3", "6", "4", "8">>
                 ELSE <<"2", "1", "4", "7", "4", "8", "3", "6", "4", "7">>
    IN  Len(d) < Len(limit) \/ (Len(d) = Len(limit) /\ ~StrLess(limit, d))

(* The value of the digits, negated *)
RECURSIVE NegValue(_)
NegValue(ds) ==
    IF ds = <<>> THEN 0
    ELSE NegValue(SubSeq(ds, 1, Len(ds) - 1)) * 10 - DigitVal(ds[Len(ds)])

(* The longest run of digits a token's unsigned part starts with *)
RECURSIVE LeadingDigits(_)
LeadingDigits(ds) ==
    IF ds # <<>> /\ Head(ds) \in DigitChars
    THEN <<Head(ds)>> \o LeadingDigits(Tail(ds))
    ELSE <<>>

(* A token that starts with an integer of int: an optional sign, digits *)
StartsWithInt(tok) ==
    /\ LeadingDigits(Unsigned(tok)) # <<>>
    /\ FitsInt(LeadingDigits(Unsigned(tok)), IsNegative(tok))

LeadingValue(tok) ==
    IF IsNegative(tok) THEN NegValue(LeadingDigits(Unsigned(tok)))
    ELSE -NegValue(LeadingDigits(Unsigned(tok)))

(* A token that is an integer of int *)
IsIntToken(tok) ==
    StartsWithInt(tok) /\ LeadingDigits(Unsigned(tok)) = Unsigned(tok)

(* How many integer tokens the text starts with *)
RECURSIVE RunLength(_)
RunLength(toks) ==
    IF toks # <<>> /\ IsIntToken(Head(toks)) THEN 1 + RunLength(Tail(toks)) ELSE 0

LeadingRun(s) ==
    [i \in 1..RunLength(Tokens(s)) |-> LeadingValue(Tokens(s)[i])]

(* C10 as claimed: on an openable file read_numbers returns exactly the
   integers of the longest leading run of integer tokens, and reports no
   error. *)
C10_LeadingRunOnly ==
    (pc = "read_done" /\ file.exists) =>
        /\ numbers = LeadingRun(file.text)
        /\ out = <<>>

(* C10 amended: read_numbers returns the integers of the longest leading run
   of integer tokens first; they are all it returns when every token is an
   integer or the first other token does not start with an integer of int;
   when that token does start with one, this integer is returned next.
   No error is reported. *)
C10_LeadingRunFirst ==
    (pc = "read_done" /\ file.exists) =>
        LET toks == Tokens(file.text)
            run == LeadingRun(file.text)
            r == Len(run)
        IN  /\ IsPrefix(run, numbers)
            /\ (r = Len(toks) \/ ~StartsWithInt(toks[r + 1])) => numbers = run
            /\ (r < Len(toks) /\ StartsWithInt(toks[r + 1])) =>
                  /\ Len(numbers) > r
                  /\ numbers[r + 1] = LeadingValue(toks[r + 1])
            /\ out = <<>>

C10_Witness ==
    /\ pc = "read_done"
    /\ file = FileOf(<<"3", " ", "x", " ", "3">>)
    /\ numbers = <<3>>

====
